---- MODULE Spec2Model ----
(***************************************************************************)
(* CellPool<T> (src/src/cell_pool.rs): a fixed-capacity slot pool with an  *)
(* index-linked free list and live list, as used by Game/Player in         *)
(* src/src/cell.rs.  Slots are identified by their index; a reference      *)
(* handed to free() is modelled by the signed offset that offset_from()    *)
(* recovers from it.  Vec indexing out of bounds is a panic, which ends    *)
(* the run with whatever writes preceded it.  A usize is held as its       *)
(* two's-complement signed reading: -k stands for 2^64 - k.                *)
(*                                                                         *)
(* FixedVec<T> (src/src/fixed_vec.rs), as used by Game/Player in           *)
(* src/src/static_cell.rs, and RefSet<T> (src/src/ref_set.rs) are the two  *)
(* other containers; each is exercised by a specification of its own,      *)
(* with the other containers left as they were built.                      *)
(***************************************************************************)
EXTENDS Integers, Sequences, FiniteSets, TLC

\* Largest capacity passed to CellPool::new.
MaxCap == 4

\* How far outside [0, capacity) the offset recovered by free() may lie.
MaxOff == 2

\* The number of distinct references handed to RefSet::add and remove.
MaxRef == 2

\* The pool's fields, then the history kept to state the contract:
\*   live      the slots handed out by alloc and not released since, in the
\*             order they were handed out
\*   released  the slots whose free returned Ok, with no alloc since
\*   run       the number of alloc calls made on the new pool while no free
\*             or clear was called (-1 once one was, or past capacity + 1)
\*   rerun     the number of alloc calls made since clear was called on a
\*             full pool while no free or clear was called (-1 otherwise)
\*   contract  whether every free so far was given a live slot
\*   op        the last call
VARIABLES capacity, items, prev, next, first_free, first, last, size,
          live, released, run, rerun, contract, op

\* FixedVec: the elements of the slice it was built over (vec_items), its
\* flags and its size.  RefSet: its cells (set_items).
VARIABLES vec_items, is_occupied, vec_size, set_items

pool == <<items, prev, next, first_free, first, last, size>>
links == <<prev, next, first_free, first, last, size>>
hist == <<live, released, run, rerun, contract>>
fixed_vec == <<vec_items, is_occupied, vec_size>>
cell_pool == <<capacity, pool, hist>>
vars == <<capacity, items, prev, next, first_free, first, last, size,
          live, released, run, rerun, contract, op,
          vec_items, is_occupied, vec_size, set_items>>

Slots == 0 .. (capacity - 1)

Range(s) == {s[k] : k \in 1 .. Len(s)}

\* Remove the first occurrence of x from sequence s.
RECURSIVE Without(_, _)
Without(s, x) ==
    IF s = <<>> THEN <<>>
    ELSE IF Head(s) = x THEN Tail(s)
    ELSE <<Head(s)>> \o Without(Tail(s), x)

(***************************************************************************)
(* Elements: Player of src/src/cell.rs, reduced to its name.               *)
(***************************************************************************)
DefaultPlayer == [name |-> ""]

\* Player::init
PlayerInit(p, name) == [p EXCEPT !.name = name]

\* Clear for Player: the name is emptied.
PlayerClear(p) == [p EXCEPT !.name = ""]

\* The names callers pass to create_player.
Names == {"Tom"}

(***************************************************************************)
(* The record of the last call: its name, argument, result and the slots   *)
(* it returned.                                                            *)
(***************************************************************************)
Call(name, arg, res, ret, seen) ==
    [name |-> name, arg |-> arg, res |-> res, ret |-> ret, seen |-> seen]

Ok == "Ok"
PoolEmpty == "Pool empty!"
InvalidItem == "Invalid item!"
AlreadyFreed == "Item already freed!"
Panic == "panic"

\* Nothing follows a panic, nor a call that broke the caller contract.
Halted == op.res = Panic \/ ~contract

(***************************************************************************)
(* CellPool::new                                                           *)
(***************************************************************************)
NewPrev(cap) == [i \in 0 .. (cap - 1) |-> cap]
NewNext(cap) == [i \in 0 .. (cap - 1) |-> i + 1]

\* FixedVec::new over a slice of n default elements
NewFixedVec(n) ==
    /\ vec_items = [i \in 0 .. (n - 1) |-> DefaultPlayer]
    /\ is_occupied = [i \in 0 .. (n - 1) |-> FALSE]
    /\ vec_size = 0

\* What an empty cell of a RefSet holds; the references are 1, 2, ...
None == 0

\* RefSet::new
NewRefSet(n) == set_items = [i \in 0 .. (n - 1) |-> None]

\* CellPool::new(cap), with the history empty
NewPool(cap) ==
    /\ capacity = cap
    /\ items = [i \in 0 .. (cap - 1) |-> DefaultPlayer]
    /\ prev = NewPrev(cap)
    /\ next = NewNext(cap)
    /\ first_free = 0
    /\ first = 0
    /\ last = 0
    /\ size = 0
    /\ live = <<>>
    /\ released = {}
    /\ run = 0
    /\ rerun = -1
    /\ contract = TRUE

Init ==
    /\ NewFixedVec(0)
    /\ NewRefSet(0)
    /\ \E cap \in 1 .. MaxCap : NewPool(cap)
    /\ op = Call("new", capacity, Ok, <<>>, "")

(***************************************************************************)
(* CellPool::alloc.  seen is the name the element holds when alloc hands   *)
(* it back.  The element itself is left to the caller.                     *)
(***************************************************************************)
\* The off-by-one slip: s > capacity
AllocFullOffByOne(s) == s < 0 \/ s > capacity

\* s >= self.items.capacity(), on usize
AllocFull(s) == s < 0 \/ s >= capacity

NextRun == IF run >= 0 /\ run <= capacity THEN run + 1 ELSE -1
NextRerun == IF rerun >= 0 /\ rerun <= capacity THEN rerun + 1 ELSE -1

Alloc ==
    /\ run' = NextRun
    /\ rerun' = NextRerun
    /\ LET s == size IN
       IF AllocFull(s)
       THEN /\ op' = Call("alloc", 0, PoolEmpty, <<>>, "")
            /\ UNCHANGED <<capacity, links, live, released, contract>>
       ELSE LET index == first_free IN
            IF index >= capacity
            THEN \* self.next[index] is out of bounds
                 /\ op' = Call("alloc", 0, Panic, <<>>, "")
                 /\ UNCHANGED <<capacity, links, live, released, contract>>
            ELSE LET li == last
                     next1 == [next EXCEPT ![li] = index]
                 IN /\ first_free' = next[index]
                    /\ prev' = [prev EXCEPT ![index] = li]
                    /\ next' = [next1 EXCEPT ![index] = capacity]
                    /\ last' = index
                    /\ first' = IF s = 0 THEN index ELSE first
                    /\ size' = s + 1
                    /\ live' = IF index \in Range(live) THEN live
                               ELSE Append(live, index)
                    /\ released' = {}
                    /\ op' = Call("alloc", 0, Ok, <<index>>, items[index].name)
                    /\ UNCHANGED <<capacity, contract>>

(***************************************************************************)
(* Game::create_player: alloc, whose error it returns, then Player::init   *)
(* on the element alloc handed back.                                       *)
(***************************************************************************)
CreatePlayer(name) ==
    /\ ~Halted
    /\ Alloc
    /\ UNCHANGED <<fixed_vec, set_items>>
    /\ items' = IF op'.res = Ok
                THEN [items EXCEPT ![op'.ret[1]] = PlayerInit(@, name)]
                ELSE items

(***************************************************************************)
(* CellPool::iter and PoolIter::next                                       *)
(***************************************************************************)
\* Steps after which a traversal is cut off (a cyclic list never ends).
IterFuel == capacity + 1

RECURSIVE Walk(_, _)
Walk(i, fuel) ==
    IF i >= capacity \/ fuel = 0 THEN <<>>
    ELSE <<i>> \o Walk(next[i], fuel - 1)

Iterate == Walk(first, IterFuel)

Iter ==
    /\ ~Halted
    /\ op' = Call("iter", 0, Ok, Iterate, "")
    /\ UNCHANGED <<capacity, pool, hist, fixed_vec, set_items>>

(***************************************************************************)
(* utils::decr on a usize.  Below zero the subtraction panics in a build   *)
(* with overflow checks (checked) and wraps in one without.                *)
(***************************************************************************)
DecrPanics(v, checked) == v = 0 /\ checked
Decr(v) == v - 1

(***************************************************************************)
(* CellPool::free.  si is the offset recovered from the reference.         *)
(***************************************************************************)
\* p >= self.items.capacity()
IsFreed(p) == p >= capacity

\* The prev link written to a slot pushed on the free list.
FreeMark == capacity

Free(si) ==
    /\ ~Halted
    /\ contract' = (si \in Range(live))
    /\ run' = -1
    /\ rerun' = -1
    /\ UNCHANGED <<fixed_vec, set_items>>
    /\ IF si < 0
       THEN /\ op' = Call("free", si, InvalidItem, <<>>, "")
            /\ UNCHANGED <<capacity, pool, live, released>>
       ELSE IF si >= capacity
       THEN \* self.prev[i] is out of bounds
            /\ op' = Call("free", si, Panic, <<>>, "")
            /\ UNCHANGED <<capacity, pool, live, released>>
       ELSE LET i == si
                p == prev[i]
            IN
            IF IsFreed(p)
            THEN /\ op' = Call("free", si, AlreadyFreed, <<>>, "")
                 /\ UNCHANGED <<capacity, pool, live, released>>
            ELSE LET n == next[i]
                     next1 == [next EXCEPT ![p] = n]
                 IN
                 IF n >= capacity
                 THEN \* self.prev[n] is out of bounds, after next[p] was set
                      /\ next' = next1
                      /\ op' = Call("free", si, Panic, <<>>, "")
                      /\ UNCHANGED <<capacity, items, prev, first_free, first,
                                     last, size, live, released>>
                 ELSE LET prev1 == [prev EXCEPT ![n] = p]
                          ff == first_free
                      IN /\ first' = IF i = first THEN n ELSE first
                         /\ last' = IF i = last THEN p ELSE last
                         /\ first_free' = i
                         /\ prev' = [prev1 EXCEPT ![i] = FreeMark]
                         /\ next' = [next1 EXCEPT ![i] = ff]
                         /\ \E checked \in BOOLEAN :
                              IF DecrPanics(size, checked)
                              THEN /\ op' = Call("free", si, Panic, <<>>, "")
                                   /\ UNCHANGED <<size, live, released>>
                              ELSE /\ size' = Decr(size)
                                   /\ live' = Without(live, i)
                                   /\ released' = released \cup {i}
                                   /\ op' = Call("free", si, Ok, <<>>, "")
                         /\ UNCHANGED <<capacity, items>>

(***************************************************************************)
(* Clear for CellPool                                                      *)
(***************************************************************************)
\* The slip of leaving self.last.set(0) out.
ClearKeepsLast ==
    /\ ~Halted
    /\ items' = [i \in Slots |-> PlayerClear(items[i])]
    /\ prev' = [i \in Slots |-> capacity]
    /\ next' = [i \in Slots |-> i + 1]
    /\ first_free' = 0
    /\ first' = 0
    /\ size' = 0
    /\ live' = <<>>
    /\ run' = -1
    /\ rerun' = IF size = capacity THEN 0 ELSE -1
    /\ op' = Call("clear", 0, Ok, <<>>, "")
    /\ UNCHANGED <<capacity, last, released, contract, fixed_vec, set_items>>

\* The slip of leaving self.first_free.set(0) out.
ClearKeepsFirstFree ==
    /\ ~Halted
    /\ items' = [i \in Slots |-> PlayerClear(items[i])]
    /\ prev' = [i \in Slots |-> capacity]
    /\ next' = [i \in Slots |-> i + 1]
    /\ first' = 0
    /\ last' = 0
    /\ size' = 0
    /\ live' = <<>>
    /\ run' = -1
    /\ rerun' = IF size = capacity THEN 0 ELSE -1
    /\ op' = Call("clear", 0, Ok, <<>>, "")
    /\ UNCHANGED <<capacity, first_free, released, contract, fixed_vec, set_items>>

\* The slip of leaving self.first.set(0) out.
ClearKeepsFirst ==
    /\ ~Halted
    /\ items' = [i \in Slots |-> PlayerClear(items[i])]
    /\ prev' = [i \in Slots |-> capacity]
    /\ next' = [i \in Slots |-> i + 1]
    /\ first_free' = 0
    /\ last' = 0
    /\ size' = 0
    /\ live' = <<>>
    /\ run' = -1
    /\ rerun' = IF size = capacity THEN 0 ELSE -1
    /\ op' = Call("clear", 0, Ok, <<>>, "")
    /\ UNCHANGED <<capacity, first, released, contract, fixed_vec, set_items>>

Clear ==
    /\ ~Halted
    /\ items' = [i \in Slots |-> PlayerClear(items[i])]
    /\ prev' = [i \in Slots |-> capacity]
    /\ next' = [i \in Slots |-> i + 1]
    /\ first_free' = 0
    /\ first' = 0
    /\ last' = 0
    /\ size' = 0
    /\ live' = <<>>
    /\ run' = -1
    /\ rerun' = IF size = capacity THEN 0 ELSE -1
    /\ op' = Call("clear", 0, Ok, <<>>, "")
    /\ UNCHANGED <<capacity, released, contract, fixed_vec, set_items>>

\* The offsets offset_from may recover: in the store, before it, after it.
Offsets == (0 - MaxOff) .. (capacity - 1 + MaxOff)

Next ==
    \/ \E name \in Names : CreatePlayer(name)
    \/ Iter
    \/ \E si \in Offsets : Free(si)
    \/ Clear

Spec == Init /\ [][Next]_vars

(***************************************************************************)
(* The calls on a new pool up to and including the first free or clear.    *)
(***************************************************************************)
NextFill ==
    \/ run >= 0 /\ \E name \in Names : CreatePlayer(name)
    \/ run >= 0 /\ Iter
    \/ run >= 0 /\ \E si \in Offsets : Free(si)
    \/ run >= 0 /\ Clear

SpecFill == Init /\ [][NextFill]_vars

(***************************************************************************)
(* Fill, then drain: every call, but no alloc once a free has returned Ok. *)
(***************************************************************************)
NextDrain ==
    \/ released = {} /\ \E name \in Names : CreatePlayer(name)
    \/ Iter
    \/ \E si \in Offsets : Free(si)
    \/ Clear

SpecDrain == Init /\ [][NextDrain]_vars

(***************************************************************************)
(* Fill and refill: the calls on a new pool, and on a pool cleared when    *)
(* full, up to and including the first free or the first other clear.      *)
(***************************************************************************)
NextRefill ==
    \/ (run >= 0 \/ rerun >= 0) /\ \E name \in Names : CreatePlayer(name)
    \/ (run >= 0 \/ rerun >= 0) /\ Iter
    \/ (run >= 0 \/ rerun >= 0) /\ \E si \in Offsets : Free(si)
    \/ (run >= 0 \/ rerun >= 0) /\ Clear

SpecRefill == Init /\ [][NextRefill]_vars

(***************************************************************************)
(* The number of reads and writes of the pool's Cells (links, list heads   *)
(* and size) that one call makes, counted along the path it takes.         *)
(***************************************************************************)
\* The slip of finding the tail by walking the live list.
AllocWorkScan(s) ==
    IF AllocFull(s) THEN 1
    ELSE IF first_free >= capacity THEN 2
    ELSE 10 + s

\* alloc: size.get; first_free.get, next[index].get, first_free.set;
\* last.get, next[li].set, prev[index].set, next[index].set, last.set;
\* first.set when s = 0; size.set.
AllocWork(s) ==
    IF AllocFull(s) THEN 1
    ELSE IF first_free >= capacity THEN 2
    ELSE IF s = 0 THEN 11 ELSE 10

\* decr: c.get, then c.set unless the subtraction panicked.
DecrWork(v, checked) == IF DecrPanics(v, checked) THEN 1 ELSE 2

\* free: prev[i].get; next[i].get; next[p].set, prev[n].set; first.get and
\* first.set when i is first; last.get and last.set when i is last;
\* first_free.get, first_free.set, prev[i].set, next[i].set; decr.
FreeWork(si, checked) ==
    IF si < 0 \/ si >= capacity THEN 0
    ELSE IF IsFreed(prev[si]) THEN 1
    ELSE IF next[si] >= capacity THEN 3
    ELSE 4 + (IF si = first THEN 2 ELSE 1)
           + (IF si = last THEN 2 ELSE 1)
           + 4 + DecrWork(size, checked)

(***************************************************************************)
(* FixedVec (src/src/fixed_vec.rs) under Game::create_player of            *)
(* src/src/static_cell.rs.  Its Player is initialised and cleared as the   *)
(* one of src/src/cell.rs: init sets the name, clear empties it.           *)
(***************************************************************************)
\* 0..self.items.len()
VecSlots == DOMAIN is_occupied

VecFull == "Vector is full!"

\* Nothing follows a panic; calls on a wrapped size are not followed.
VecHalted == Halted \/ op.res = VecFull \/ vec_size < 0

\* The slip of scanning from the top.
VecLastVacant ==
    CHOOSE i \in VecSlots :
        ~is_occupied[i] /\ \A j \in VecSlots : j > i => is_occupied[j]

\* for i in 0..len: the first i with !is_occupied[i]
VecFirstVacant ==
    CHOOSE i \in VecSlots :
        ~is_occupied[i] /\ \A j \in VecSlots : j < i => is_occupied[j]

\* FixedVec::alloc
VecAlloc ==
    IF \A i \in VecSlots : is_occupied[i]
    THEN /\ op' = Call("FixedVec::alloc", 0, VecFull, <<>>, "")
         /\ UNCHANGED <<is_occupied, vec_size>>
    ELSE LET i == VecFirstVacant
         IN /\ is_occupied' = [is_occupied EXCEPT ![i] = TRUE]
            /\ vec_size' = vec_size + 1
            /\ op' = Call("FixedVec::alloc", 0, Ok, <<i>>, vec_items[i].name)

\* Game::create_player of static_cell.rs: alloc, then Player::init.
VecCreatePlayer(name) ==
    /\ ~VecHalted
    /\ VecAlloc
    /\ vec_items' = IF op'.res = Ok
                    THEN [vec_items EXCEPT ![op'.ret[1]] = PlayerInit(@, name)]
                    ELSE vec_items
    /\ UNCHANGED <<cell_pool, set_items>>

\* FixedVec::free.  si is the offset recovered from the reference: the
\* assert panics below 0, and the index into is_occupied panics past the
\* end (v.clear() has then cleared an element that is not of this vector).
\* size - 1 is a usize subtraction, as in utils::decr.
VecFree(si) ==
    /\ ~VecHalted
    /\ UNCHANGED <<cell_pool, set_items>>
    /\ IF si < 0 \/ si \notin VecSlots
       THEN /\ op' = Call("FixedVec::free", si, Panic, <<>>, "")
            /\ UNCHANGED fixed_vec
       ELSE /\ vec_items' = [vec_items EXCEPT ![si] = PlayerClear(@)]
            /\ is_occupied' = [is_occupied EXCEPT ![si] = FALSE]
            /\ \E checked \in BOOLEAN :
                 IF DecrPanics(vec_size, checked)
                 THEN /\ op' = Call("FixedVec::free", si, Panic, <<>>, "")
                      /\ UNCHANGED vec_size
                 ELSE /\ vec_size' = Decr(vec_size)
                      /\ op' = Call("FixedVec::free", si, Ok, <<>>, "")

\* The offsets offset_from may recover for FixedVec::free.
VecOffsets == (0 - MaxOff) .. (Cardinality(VecSlots) - 1 + MaxOff)

InitVec ==
    /\ NewPool(1)
    /\ NewRefSet(0)
    /\ \E n \in 1 .. MaxCap :
         /\ NewFixedVec(n)
         /\ op = Call("FixedVec::new", n, Ok, <<>>, "")

NextVec ==
    \/ \E name \in Names : VecCreatePlayer(name)
    \/ \E si \in VecOffsets : VecFree(si)

SpecVec == InitVec /\ [][NextVec]_vars

(***************************************************************************)
(* RefSet (src/src/ref_set.rs).  A reference is known by its address only. *)
(***************************************************************************)
\* The references callers hand to add and remove.
Refs == 1 .. MaxRef

\* self.items, by index
SetCells == DOMAIN set_items

OutOfSpace == "Out of space!"
NotInSet == "Item not in set!"

\* The first cell, in the order self.items.iter() visits them, holding w.
SetFirst(w) ==
    CHOOSE i \in SetCells :
        set_items[i] = w /\ \A j \in SetCells : j < i => set_items[j] # w

\* RefSet::add
SetAdd(v) ==
    /\ IF \E i \in SetCells : set_items[i] = None
       THEN /\ set_items' = [set_items EXCEPT ![SetFirst(None)] = v]
            /\ op' = Call("RefSet::add", v, Ok, <<>>, "")
       ELSE /\ op' = Call("RefSet::add", v, OutOfSpace, <<>>, "")
            /\ UNCHANGED set_items
    /\ UNCHANGED <<cell_pool, fixed_vec>>

\* RefSet::remove
SetRemove(v) ==
    /\ IF \E i \in SetCells : set_items[i] = v
       THEN /\ set_items' = [set_items EXCEPT ![SetFirst(v)] = None]
            /\ op' = Call("RefSet::remove", v, Ok, <<>>, "")
       ELSE /\ op' = Call("RefSet::remove", v, NotInSet, <<>>, "")
            /\ UNCHANGED set_items
    /\ UNCHANGED <<cell_pool, fixed_vec>>

\* self.items.iter().filter_map(|x| x.get()), from cell i on
RECURSIVE SetYield(_)
SetYield(i) ==
    IF i \notin SetCells THEN <<>>
    ELSE (IF set_items[i] = None THEN <<>> ELSE <<set_items[i]>>)
         \o SetYield(i + 1)

\* RefSet::iter
SetIter ==
    /\ op' = Call("RefSet::iter", 0, Ok, SetYield(0), "")
    /\ UNCHANGED <<cell_pool, fixed_vec, set_items>>

InitSet ==
    /\ NewPool(1)
    /\ NewFixedVec(0)
    /\ \E n \in 1 .. MaxCap :
         /\ NewRefSet(n)
         /\ op = Call("RefSet::new", n, Ok, <<>>, "")

NextSet ==
    \/ \E v \in Refs : SetAdd(v)
    \/ \E v \in Refs : SetRemove(v)
    \/ SetIter

SpecSet == InitSet /\ [][NextSet]_vars

(***************************************************************************)
(* The lists the links describe.  A walk is cut off after capacity + 1     *)
(* steps, so a walk longer than capacity is one that does not end.  The    *)
(* live list is empty when size is 0, whatever first holds.                *)
(***************************************************************************)
FreeList == Walk(first_free, IterFuel)
LiveList == IF size = 0 THEN <<>> ELSE Walk(first, IterFuel)

NoDup(s) == Cardinality(Range(s)) = Len(s)

\* The links as new and clear leave them.
NewLinks == <<NewPrev(capacity), NewNext(capacity), 0, 0, 0, 0>>

\* The fields clear assigns, computed from the current ones.
Cleared ==
    <<[i \in Slots |-> PlayerClear(items[i])],
      NewPrev(capacity), NewNext(capacity), 0, 0, 0, 0>>

\* The state is one a completed, contract-respecting call sequence leaves.
InContract == contract /\ op.res # Panic

\* C1: under the caller contract every slot is on exactly one of the free
\* list and the live list, and their lengths add up to capacity.
C1_Partition ==
    InContract =>
        /\ NoDup(FreeList)
        /\ NoDup(LiveList)
        /\ Range(FreeList) \cap Range(LiveList) = {}
        /\ Range(FreeList) \cup Range(LiveList) = Slots
        /\ Len(FreeList) + Len(LiveList) = capacity

\* C2: under the caller contract a successful alloc never returns a slot
\* that is live at the time of the call.
C2_FreshIdentity ==
    [][(op'.name = "alloc" /\ op'.res = Ok /\ contract')
          => op'.ret[1] \notin Range(live)]_vars

\* C3: in every state under the caller contract, iteration yields exactly
\* the live slots, each once, in the order they were allocated.
C3_IterateInAllocationOrder == InContract => Iterate = live

\* C4: free of a live slot returns Ok whatever the slot's position; then
\* the slot is on the free list, no longer live, and size is one smaller.
C4_ReleaseLiveSucceeds ==
    [][(op'.name = "free" /\ contract')
          => /\ op'.res = Ok
             /\ size' = size - 1
             /\ op'.arg \in Range(FreeList')
             /\ op'.arg \notin Range(LiveList')]_vars

\* C5: on a new pool of capacity N the first N consecutive alloc calls
\* return Ok, and the (N+1)-th returns "Pool empty!" and changes no field.
C5_CapacityBound ==
    [][(op'.name = "alloc" /\ run' >= 1)
          => IF run' <= capacity
             THEN op'.res = Ok
             ELSE op'.res = PoolEmpty /\ pool' = pool]_vars

C5_Witness == run = capacity + 1 /\ op.name = "alloc" /\ op.res = PoolEmpty

\* C6: iteration over a pool whose size is 0 yields nothing.
C6_IterateEmpty == (InContract /\ size = 0) => Iterate = <<>>

\* C7: once free has returned Ok the released element's name is empty, and
\* alloc never hands back an element still holding a name.
C7_ResetOnRelease ==
    /\ (op.name = "free" /\ op.res = Ok /\ contract) => items[op.arg].name = ""
    /\ (op.name = "alloc" /\ op.res = Ok /\ contract) => op.seen = ""

\* C8: when the pool is full, free of any live slot returns Ok and the
\* alloc that follows returns Ok with exactly that slot.
C8_ReuseAfterRelease ==
    [][/\ (size = capacity /\ op'.name = "free" /\ contract') => op'.res = Ok
       /\ (op.name = "free" /\ op.res = Ok /\ size = capacity - 1
             /\ op'.name = "alloc")
            => (op'.res = Ok /\ op'.ret = <<op.arg>>)]_vars

\* C9: free of a slot whose free already returned Ok, with no alloc since,
\* returns "Item already freed!" and changes no field.
C9_DoubleRelease ==
    [][(op'.name = "free" /\ op'.arg \in released)
          => (op'.res = AlreadyFreed /\ pool' = pool)]_vars

C9_Witness ==
    op.name = "free" /\ op.arg \in released /\ op.res = AlreadyFreed

\* C10: free with an offset outside [0, capacity), below or above, returns
\* "Invalid item!" and changes no field.
C10_InvalidReference ==
    [][(op'.name = "free" /\ (op'.arg < 0 \/ op'.arg >= capacity))
          => (op'.res = InvalidItem /\ pool' = pool)]_vars

\* C11: in every state under the caller contract the traversal iter starts
\* reaches the sentinel after at most capacity steps (the next links from
\* first form no cycle).
C11_IterateFinite == InContract => Len(Iterate) <= capacity

\* C12: from any state clear leaves the pool as new built it: every name
\* empty, next[i] = i + 1, prev[i] = capacity, first_free, first, last and
\* size 0.
C12_ClearRestoresNew ==
    [][op'.name = "clear"
          => /\ \A i \in Slots : items'[i].name = ""
             /\ prev' = NewPrev(capacity)
             /\ next' = NewNext(capacity)
             /\ first_free' = 0
             /\ first' = 0
             /\ last' = 0
             /\ size' = 0
             /\ LiveList' = <<>>]_vars

\* clear has run on a pool from which a slot had been released.
C12_Witness == op.name = "clear" /\ released # {} /\ size = 0

C14_SizeAccounting ==
    InContract =>
        /\ 0 <= size
        /\ size <= capacity
        /\ size = Len(live)

\* C15: in every state under the caller contract first_free = capacity
\* exactly when size = capacity; when size < capacity first_free is a slot
\* that is not live, and an alloc fails or aborts only on a full pool.
C15_FreeHeadExact ==
    /\ InContract =>
          /\ (first_free = capacity) <=> (size = capacity)
          /\ size < capacity
               => (first_free \in Slots /\ first_free \notin Range(live))
    /\ (contract /\ op.name = "alloc" /\ op.res # Ok) => size = capacity

C17_IndexOrder ==
    /\ op.name = "new"
         => /\ first_free = 0
            /\ size = 0
            /\ \A i \in Slots : next[i] = i + 1
    /\ (op.name = "alloc" /\ run >= 1 /\ run <= capacity)
         => (op.res = Ok /\ op.ret = <<run - 1>>)
    /\ (op.name = "alloc" /\ rerun >= 1 /\ rerun <= capacity)
         => (op.res = Ok /\ op.ret = <<rerun - 1>>)

\* The last slot has been handed out again after a clear of the full pool.
C17_Witness ==
    /\ capacity > 1
    /\ op.name = "alloc"
    /\ rerun = capacity
    /\ op.ret = <<capacity - 1>>

\* C18: in every state under the caller contract prev[i] = capacity exactly
\* for the slots that are not live, so the check in free passes for the
\* live slots and for no other.
C18_FreeMarkExact ==
    InContract =>
        \A i \in Slots : IsFreed(prev[i]) <=> (i \notin Range(live))

\* C19: in every state under the caller contract with size > 0, first is
\* the earliest-allocated live slot, last the latest, last is reached from
\* first along next, and next[last] is the sentinel.
C19_Endpoints ==
    (InContract /\ size > 0) =>
        /\ live # <<>>
        /\ first = Head(live)
        /\ last = live[Len(live)]
        /\ last \in Range(Iterate)
        /\ next[last] = capacity

\* C20: in every state under the caller contract, prev of every live slot
\* but the first is the live slot allocated just before it, and next of
\* that slot leads back; prev[first] names no slot other than first.
C20_BackLinks ==
    InContract =>
        /\ \A k \in 2 .. Len(live) :
              /\ prev[live[k]] = live[k - 1]
              /\ next[live[k - 1]] = live[k]
        /\ size > 0 => (first \in Slots /\ prev[first] \in {first, capacity})

\* C21: a free that returns Ok under the caller contract changes neither
\* prev nor next of any slot that was on the free list, and the free list
\* after it is the released slot followed by the free list before it.
C21_ReleaseFrame ==
    [][(op'.name = "free" /\ op'.res = Ok /\ contract')
          => /\ \A j \in Range(FreeList) :
                  prev'[j] = prev[j] /\ next'[j] = next[j]
             /\ FreeList' = <<op'.arg>> \o FreeList]_vars

\* C22: a free that does not return Ok, whether it returns an error or
\* panics, leaves prev, next, first_free, first, last and size as they were.
C22_ReleaseAllOrNothing ==
    [][(op'.name = "free" /\ op'.res # Ok) => links' = links]_vars

\* The slots of the FixedVec whose flag is set.
VecOccupied == {i \in VecSlots : is_occupied[i]}

\* C23: after every FixedVec::alloc, and every FixedVec::free of a slot of
\* the vector, occupied or not, size is the number of slots whose
\* is_occupied flag is true, and is not below 0.
C23_VecSizeAccounting ==
    [][((op'.name = "FixedVec::free" /\ op'.arg \in VecSlots)
          \/ op'.name = "FixedVec::alloc")
          => /\ vec_size' = Cardinality(VecOccupied')
             /\ vec_size' >= 0]_vars

\* C24: FixedVec::alloc returns the lowest slot whose flag is false and
\* sets its flag, and changes no other flag; it panics with "Vector is
\* full!" exactly when every flag is set.  FixedVec::free of a slot of the
\* vector empties the element's name and clears exactly that slot's flag.
C24_FirstFit ==
    [][/\ op'.name = "FixedVec::alloc"
            => IF VecOccupied = VecSlots
               THEN op'.res = VecFull /\ fixed_vec' = fixed_vec
               ELSE /\ op'.res = Ok
                    /\ \E i \in VecSlots :
                         /\ op'.ret = <<i>>
                         /\ ~is_occupied[i]
                         /\ \A j \in VecSlots : j < i => is_occupied[j]
                         /\ is_occupied' = [is_occupied EXCEPT ![i] = TRUE]
       /\ (op'.name = "FixedVec::free" /\ op'.arg \in VecSlots)
            => /\ vec_items'[op'.arg].name = ""
               /\ is_occupied' = [is_occupied EXCEPT ![op'.arg] = FALSE]]_vars

\* alloc has handed out a freed slot that lies below an occupied one.
C24_Witness ==
    /\ op.name = "FixedVec::alloc"
    /\ op.res = Ok
    /\ \E j \in VecOccupied : j > op.ret[1]
    /\ vec_size = Cardinality(VecOccupied)

\* C25: after every RefSet call iter yields no reference twice, and after a
\* remove that returned Ok it does not yield the removed reference; add
\* returns "Out of space!" exactly when no cell is empty, remove returns
\* "Item not in set!" exactly when no cell holds the reference, and a call
\* that failed changed no cell.
C25_SetSemantics ==
    [][/\ NoDup(SetYield(0)')
       /\ (op'.name = "RefSet::remove" /\ op'.res = Ok)
            => op'.arg \notin Range(SetYield(0)')
       /\ op'.name = "RefSet::add"
            => /\ (op'.res = OutOfSpace)
                    <=> (\A i \in SetCells : set_items[i] # None)
               /\ op'.res # Ok => set_items' = set_items
       /\ op'.name = "RefSet::remove"
            => /\ (op'.res = NotInSet)
                    <=> (\A i \in SetCells : set_items[i] # op'.arg)
               /\ op'.res # Ok => set_items' = set_items]_vars

====
